---- MODULE Spec2Model ----
(***************************************************************************)
(* Loan lifecycle of backend/server.js: lenders publish offers, borrowers  *)
(* apply and repay, lenders approve or reject applications.  The store is  *)
(* the three MongoDB collections LoanOffer, LoanApplication, LoanPayment.  *)
(* Documents are kept in insertion (natural) order; a document's _id is    *)
(* its position in its collection.  No handler deletes from these three    *)
(* collections, so positions are stable.                                   *)
(*                                                                         *)
(* Every handler that awaits one store operation is one atomic action.     *)
(* The PATCH handler awaits up to five store operations in sequence; each  *)
(* await is one action, so that concurrent requests interleave between     *)
(* them as they do on the event loop.                                      *)
(***************************************************************************)
EXTENDS Integers, Sequences, FiniteSets, TLC

\* ---------------------------------------------------------------- bounds
\* Documents per collection, and payment entries over all records.  The
\* LoanPayment collection needs no bound: an application gets at most one
\* record per PATCH handler in flight.
MaxOffers == 1
MaxApps == 1
MaxPayments == 2

\* Applications in the specification of the application ledger, which needs
\* two applications against one offer.
MaxLedgerApps == 2

\* User documents ever created.
MaxUsers == 2

\* Applications and payment records handed to calculateCreditScore.
MaxScoreApps == 3
MaxScoreRecords == 2

\* Request slots: the PATCH handlers that may be in flight at the same time.
Procs == {1, 2}

\* Decoded bearer tokens (req.user): identity id and role.
Tokens ==
  { [id |-> "L1", role |-> "lender"],
    [id |-> "L2", role |-> "lender"],
    [id |-> "B1", role |-> "borrower"] }

\* The callers of the concurrent specification, each entitled to the
\* operations it calls: the lender who owns the offers, and the borrower.
Owners == {t \in Tokens : t.id = "L1"}
Borrowers == {t \in Tokens : t.role = "borrower"}

\* Values of a stored status (the schema's enum).
Statuses == {"pending", "approved", "rejected"}

\* Values of req.body.status a lender sends.
RequestStatuses == {"approved", "rejected"}

\* Values of req.body.amount a caller sends (no sign check in the handler).
Amounts == {-1, 2}

\* An ObjectId that is well formed but names no stored document.
GhostId == 0

\* Values of req.body.email; NoEmail is a body without the field.
NoEmail == ""
Emails == {"a@x", "b@x"}

\* Values of a stored role (the schema's enum), and of req.body.role.
Roles == {"borrower", "lender", "admin"}
BodyRoles == Roles \cup {"other"}

\* Values of req.body.role an admin sends to change a user's role: the
\* promotion, which hands the promoted user the admin operations.
Promotions == {"admin"}

\* p.payments?.length of a payment record handed to calculateCreditScore;
\* NoArray is a record without a payments array.
NoArray == -1
Lengths == {NoArray, 0, 1, 2, 3, 1000}

\* Outcomes of populate() on a path the User schema does not define: the
\* installed Mongoose either ignores the path or throws StrictPopulateError.
PopulateOutcomes == {"ignored", "throws"}

VARIABLES
  offers,   \* LoanOffer collection: sequence of [lenderId, isActive]
  apps,     \* LoanApplication collection: sequence of [borrowerId, loanOfferId, status]
  records,  \* LoanPayment collection: sequence of [applicationId, amountPaid, payments]
  pc,       \* per request slot: the await the PATCH handler is suspended at
  req,      \* per request slot: the PATCH handler's locals
  res,      \* the last HTTP response sent
  users,    \* User collection: sequence of [email, role], Gone once deleted
  tokens,   \* the bearer tokens login has issued: set of [id, role]
  reg,      \* per request slot: the register handler suspended before save
  scoreInput  \* the argument of calculateCreditScore: [applications, payments]

vars == <<offers, apps, records, pc, req, res, users, tokens, reg, scoreInput>>
store == <<offers, apps, records>>
loans == <<offers, apps, records, pc, req>>
identity == <<users, tokens, reg>>

\* ---------------------------------------------------------------- helpers
RECURSIVE SumAmounts(_)
SumAmounts(ps) ==
  IF ps = <<>> THEN 0 ELSE ps[1].amount + SumAmounts(Tail(ps))

\* Positions of the LoanPayment documents matching {applicationId: a}.
RecordsOf(recs, a) == {i \in 1..Len(recs) : recs[i].applicationId = a}

\* findOne / findOneAndUpdate without a sort: the first match in natural
\* order, 0 (null) when nothing matches.
FindOne(recs, a) ==
  IF RecordsOf(recs, a) = {} THEN 0
  ELSE CHOOSE i \in RecordsOf(recs, a) : \A j \in RecordsOf(recs, a) : i <= j

\* populate('loanOfferId'): the referenced offer, null when it is not stored.
Populate(offs, oid) == IF oid \in 1..Len(offs) THEN oid ELSE GhostId

\* Faulty variant: the offer is stored inactive.
NewOfferInactive(lender) == [lenderId |-> lender, isActive |-> FALSE]

\* new LoanOffer({lenderId, amount, interestRate, maxTermMonths}): isActive
\* is not taken from the body and gets the schema default.
NewOffer(lender) == [lenderId |-> lender, isActive |-> TRUE]

\* new LoanApplication({borrowerId, loanOfferId, ...}): status gets the
\* schema default.
NewApplication(borrower, oid) ==
  [borrowerId |-> borrower, loanOfferId |-> oid, status |-> "pending"]

\* LoanPayment.create({applicationId}): schema defaults for the rest.
NewPayment(a) == [applicationId |-> a, amountPaid |-> 0, payments |-> <<>>]

\* Faulty variant: a read-modify-write that stores the amount over the total.
ApplyPaymentOverwrite(rec, amount) ==
  [rec EXCEPT !.amountPaid = amount,
              !.payments = Append(@, [amount |-> amount])]

\* Faulty variant: the $push is missing.
ApplyPaymentNoPush(rec, amount) == [rec EXCEPT !.amountPaid = @ + amount]

\* {$inc: {amountPaid: amount}, $push: {payments: {amount}}} on one document.
\* The entry's date (default Date.now) is read by no handler and is left out.
ApplyPayment(rec, amount) ==
  [rec EXCEPT !.amountPaid = @ + amount,
              !.payments = Append(@, [amount |-> amount])]

\* Faulty variant: the comparison never matches (a misspelt literal).
NeverApproval(status) == FALSE

\* Faulty variant: the side effects run whatever the status.
AnyStatus(status) == TRUE

\* Faulty variant: the side effects run for every status but pending.
IsNotPending(status) == status # "pending"

\* status === 'approved'
IsApproval(status) == status = "approved"

\* Faulty variant: the test is inverted into one that never creates.
NeverCreate(existing) == FALSE

\* Faulty variant: the lookup's result is ignored.
AlwaysCreate(existing) == TRUE

\* !existingPayment
NeedsCreate(existing) == existing = 0

Response(op, code, body) == [op |-> op, code |-> code, body |-> body]
ErrorBody == [kind |-> "error"]
NullBody == [kind |-> "null"]
DocBody(kind) == [kind |-> kind]

NoReq == [user |-> "none", id |-> GhostId, status |-> "none", offer |-> GhostId]
NoRes == Response("none", 0, NullBody)
NoReg == [email |-> "none", role |-> "none"]
NoBorrower == [applications |-> <<>>, payments |-> <<>>]

\* GET /api/borrower/loan-offers: LoanOffer.find({isActive: true})
ListActiveOffers(offs) == {o \in 1..Len(offs) : offs[o].isActive}

RECURSIVE CountPayments(_)
CountPayments(recs) ==
  IF recs = <<>> THEN 0 ELSE Len(recs[1].payments) + CountPayments(Tail(recs))

\* ---------------------------------------------------------------- init
Init ==
  /\ offers = <<>>
  /\ apps = <<>>
  /\ records = <<>>
  /\ pc = [p \in Procs |-> "idle"]
  /\ req = [p \in Procs |-> NoReq]
  /\ res = NoRes
  /\ users = <<>>
  /\ tokens = {}
  /\ reg = [p \in Procs |-> NoReg]
  /\ scoreInput = NoBorrower

\* ---------------------------------------------------------------- actions
\* POST /api/lender/loan-offers
CreateOffer(u) ==
  /\ IF u.role # "lender"
       THEN /\ res' = Response("createOffer", 403, ErrorBody)
            /\ UNCHANGED offers
       ELSE /\ Len(offers) < MaxOffers
            /\ offers' = Append(offers, NewOffer(u.id))
            /\ res' = Response("createOffer", 201, DocBody("offer"))
  /\ UNCHANGED <<apps, records, pc, req>>
  /\ UNCHANGED <<identity, scoreInput>>

\* POST /api/borrower/applications
CreateApplicationUpTo(u, oid, cap) ==
  /\ IF u.role # "borrower"
       THEN /\ res' = Response("createApplication", 403, ErrorBody)
            /\ UNCHANGED apps
       ELSE /\ Len(apps) < cap
            /\ apps' = Append(apps, NewApplication(u.id, oid))
            /\ res' = Response("createApplication", 201, DocBody("app"))
  /\ UNCHANGED <<offers, records, pc, req>>
  /\ UNCHANGED <<identity, scoreInput>>

CreateApplication(u, oid) == CreateApplicationUpTo(u, oid, MaxApps)

\* POST /api/borrower/payments/:applicationId
RecordPayment(u, a, amount) ==
  /\ IF u.role # "borrower"
       THEN /\ res' = Response("recordPayment", 403, ErrorBody)
            /\ UNCHANGED records
       ELSE LET i == FindOne(records, a) IN
         IF i = 0
           THEN /\ res' = Response("recordPayment", 200, NullBody)
                /\ UNCHANGED records
           ELSE /\ CountPayments(records) < MaxPayments
                /\ records' = [records EXCEPT ![i] = ApplyPayment(@, amount)]
                /\ res' = Response("recordPayment", 200, DocBody("payment"))
  /\ UNCHANGED <<offers, apps, pc, req>>
  /\ UNCHANGED <<identity, scoreInput>>

\* PATCH /api/lender/applications/:id, up to the first await's result:
\* role check, findById(...).populate('loanOfferId'), the 404 return and
\* the branch on status.
PatchBegin(p, u, id, status) ==
  /\ pc[p] = "idle"
  /\ IF u.role # "lender"
       THEN /\ res' = Response("setApplicationStatus", 403, ErrorBody)
            /\ UNCHANGED <<pc, req>>
       ELSE IF id \notin 1..Len(apps)
         THEN /\ res' = Response("setApplicationStatus", 404, ErrorBody)
              /\ UNCHANGED <<pc, req>>
         ELSE /\ req' = [req EXCEPT ![p] =
                           [user |-> u.id, id |-> id, status |-> status,
                            offer |-> Populate(offers, apps[id].loanOfferId)]]
              /\ pc' = [pc EXCEPT ![p] =
                          IF IsApproval(status) THEN "deactivate" ELSE "write"]
              /\ UNCHANGED res
  /\ UNCHANGED store
  /\ UNCHANGED <<identity, scoreInput>>

\* LoanOffer.findByIdAndUpdate(appToUpdate.loanOfferId._id, {isActive: false});
\* a null populated offer makes the property read throw, caught as a 500.
PatchDeactivate(p) ==
  /\ pc[p] = "deactivate"
  /\ IF req[p].offer = GhostId
       THEN /\ res' = Response("setApplicationStatus", 500, ErrorBody)
            /\ pc' = [pc EXCEPT ![p] = "idle"]
            /\ req' = [req EXCEPT ![p] = NoReq]
            /\ UNCHANGED offers
       ELSE /\ offers' = [offers EXCEPT ![req[p].offer].isActive = FALSE]
            /\ pc' = [pc EXCEPT ![p] = "findPayment"]
            /\ UNCHANGED <<req, res>>
  /\ UNCHANGED <<apps, records>>
  /\ UNCHANGED <<identity, scoreInput>>

\* LoanPayment.findOne({applicationId}) and the test of its result.
PatchFindPayment(p) ==
  /\ pc[p] = "findPayment"
  /\ pc' = [pc EXCEPT ![p] =
              IF NeedsCreate(FindOne(records, req[p].id)) THEN "create" ELSE "write"]
  /\ UNCHANGED <<store, req, res>>
  /\ UNCHANGED <<identity, scoreInput>>

\* LoanPayment.create({applicationId})
PatchCreate(p) ==
  /\ pc[p] = "create"
  /\ records' = Append(records, NewPayment(req[p].id))
  /\ pc' = [pc EXCEPT ![p] = "write"]
  /\ UNCHANGED <<offers, apps, req, res>>
  /\ UNCHANGED <<identity, scoreInput>>

\* LoanApplication.findByIdAndUpdate(id, {status}, {new: true}); res.json
PatchWrite(p) ==
  /\ pc[p] = "write"
  /\ apps' = [apps EXCEPT ![req[p].id].status = req[p].status]
  /\ res' = Response("setApplicationStatus", 200, DocBody("app"))
  /\ pc' = [pc EXCEPT ![p] = "idle"]
  /\ req' = [req EXCEPT ![p] = NoReq]
  /\ UNCHANGED <<offers, records>>
  /\ UNCHANGED <<identity, scoreInput>>

\* ---------------------------------------------------------------- identity
\* User documents.  The _id of the document at position i is an ObjectId;
\* IdOf(i) is its lower-case hex string, the form JSON and the token carry,
\* and UpperOf(i) the same digits in upper case.  Casting a string to an
\* ObjectId reads the hex digits whatever their case, so both spell the
\* same _id.  A deleted document leaves a tombstone at its position
\* (present = FALSE, no role), because an ObjectId is never issued twice.
\* The tombstone keeps the email the document was registered with.
IdOf(i) == "a" \o ToString(i)
UpperOf(i) == "A" \o ToString(i)
Spellings(i) == {IdOf(i), UpperOf(i)}

NewUser(i, email, role) ==
  [id |-> IdOf(i), email |-> email, role |-> role, present |-> TRUE]

\* User.findOne({email})
FindNoEmail(us, email) == {}

FindByEmail(us, email) ==
  {i \in 1..Len(us) : us[i].present /\ us[i].email = email}

\* User.findOne({email, role})
FindByEmailRole(us, email, role) ==
  {i \in FindByEmail(us, email) : us[i].role = role}

\* User.findById(id)
FindById(us, id) == {i \in 1..Len(us) : us[i].present /\ id \in Spellings(i)}

\* User.findByIdAndDelete(id)
DeleteById(us, id) ==
  [i \in 1..Len(us) |->
     IF id \in Spellings(i) THEN [us[i] EXCEPT !.present = FALSE, !.role = "none"]
                      ELSE us[i]]

\* req.user.role !== '<role>'
AnyRole(u, role) == TRUE

HasRole(u, role) == u.role = role

\* register, up to the first await that a concurrent request can pass:
\* the required-field test, then User.findOne({email})
RegisterBegin(p, email, role) ==
  /\ reg[p] = NoReg
  /\ \A q \in Procs : reg[q] = NoReg => p <= q
  /\ IF email = NoEmail
       THEN /\ res' = Response("register", 400, DocBody("fieldsRequired"))
            /\ UNCHANGED reg
       ELSE IF FindByEmail(users, email) # {}
         THEN /\ res' = Response("register", 400, DocBody("emailRegistered"))
              /\ UNCHANGED reg
         ELSE /\ Len(users) + Cardinality({q \in Procs : reg[q] # NoReg}) < MaxUsers
              /\ reg' = [reg EXCEPT ![p] = [email |-> email, role |-> role]]
              /\ UNCHANGED res
  /\ UNCHANGED <<users, tokens>>
  /\ UNCHANGED <<loans, scoreInput>>

\* await newUser.save(): the role enum is validated, then the insert meets
\* the unique index on email; either failure is caught and answered 500
RegisterSave(p) ==
  /\ reg[p] # NoReg
  /\ IF reg[p].role \notin Roles
       THEN /\ res' = Response("register", 500, DocBody("roleInvalid"))
            /\ UNCHANGED users
       ELSE IF FindByEmail(users, reg[p].email) # {}
       THEN /\ res' = Response("register", 500, DocBody("duplicateKey"))
            /\ UNCHANGED users
       ELSE /\ users' = Append(users, NewUser(Len(users) + 1, reg[p].email, reg[p].role))
            /\ res' = Response("register", 201, DocBody("message"))
  /\ reg' = [reg EXCEPT ![p] = NoReg]
  /\ UNCHANGED tokens
  /\ UNCHANGED <<loans, scoreInput>>

\* login: the token carries the user's id and role
Login(email, role, passwordOk) ==
  /\ LET found == FindByEmailRole(users, email, role) IN
       IF found = {} \/ ~passwordOk
         THEN /\ res' = Response("login", 400, ErrorBody)
              /\ UNCHANGED tokens
         ELSE /\ tokens' = tokens \cup {[id |-> users[CHOOSE i \in found : TRUE].id,
                                        role |-> role]}
              /\ res' = Response("login", 200, DocBody("token"))
  /\ UNCHANGED <<users, reg>>
  /\ UNCHANGED <<loans, scoreInput>>

\* DELETE /api/admin/users/:id
DeleteUser(u, id) ==
  /\ IF ~HasRole(u, "admin")
       THEN /\ res' = Response("deleteUser", 403, ErrorBody)
            /\ UNCHANGED users
       ELSE IF id = u.id
         THEN /\ res' = Response("deleteUser", 400, ErrorBody)
              /\ UNCHANGED users
         ELSE /\ users' = DeleteById(users, id)
              /\ res' = Response("deleteUser", 200, DocBody("message"))
  /\ UNCHANGED <<tokens, reg>>
  /\ UNCHANGED <<loans, scoreInput>>

\* PATCH /api/admin/users/:id/role: findByIdAndUpdate runs no validators
SetUserRole(u, id, role) ==
  /\ IF ~HasRole(u, "admin")
       THEN /\ res' = Response("setUserRole", 403, ErrorBody)
            /\ UNCHANGED users
       ELSE IF FindById(users, id) = {}
         THEN /\ res' = Response("setUserRole", 200, NullBody)
              /\ UNCHANGED users
         ELSE /\ users' = [i \in 1..Len(users) |->
                             IF i \in FindById(users, id)
                               THEN [users[i] EXCEPT !.role = role] ELSE users[i]]
              /\ res' = Response("setUserRole", 200, DocBody("user"))
  /\ UNCHANGED <<tokens, reg>>
  /\ UNCHANGED <<loans, scoreInput>>

\* p.status of a stored payment entry: the entries hold date and amount only
StatusOf(p) == "undefined"

CountStatus(ps, status) ==
  Cardinality({k \in 1..Len(ps) : StatusOf(ps[k]) = status})

\* The scoring of GET /api/borrower/credit-score over borrower.payments
ScoreForBorrower(hasPayments, ps) ==
  LET onTimePayments == IF hasPayments THEN CountStatus(ps, "ontime") ELSE 0
      latePayments == IF hasPayments THEN CountStatus(ps, "late") ELSE 0
      score == 650 + onTimePayments * 5 - latePayments * 10
      capped == IF score < 850 THEN score ELSE 850
  IN  IF capped > 300 THEN capped ELSE 300

\* GET /api/borrower/credit-score: a User document has no payments path, so
\* borrower.payments is undefined when populate() lets the query through
BorrowerCreditScore(u, populate) ==
  /\ IF ~HasRole(u, "borrower")
       THEN res' = Response("borrowerCreditScore", 403, ErrorBody)
       ELSE IF populate = "throws" \/ FindById(users, u.id) = {}
         THEN res' = Response("borrowerCreditScore", 500, ErrorBody)
         ELSE res' = Response("borrowerCreditScore", 200,
                              [kind |-> "score", score |-> ScoreForBorrower(FALSE, <<>>)])
  /\ UNCHANGED <<loans, identity, scoreInput>>

\* borrower.payments.reduce((sum, p) => sum + (p.payments?.length || 0), 0),
\* over the lengths of the records' payments arrays
RECURSIVE TotalPayments(_)
TotalPayments(ps) ==
  IF ps = <<>> THEN 0
  ELSE TotalPayments(Tail(ps)) + (IF Head(ps) = NoArray THEN 0 ELSE Head(ps))

\* borrower.applications.filter(a => a.status === 'approved').length
ApprovedLoans(as) == Cardinality({k \in 1..Len(as) : as[k] = "approved"})

\* Faulty variant: the score is returned without the clamp.
CalculateCreditScoreUnclamped(b) ==
  700 + TotalPayments(b.payments) * 5 + ApprovedLoans(b.applications) * 20

\* calculateCreditScore(borrower)
CalculateCreditScore(b) ==
  LET score0 == 700
      score1 == IF Len(b.payments) > 0
                  THEN score0 + TotalPayments(b.payments) * 5 ELSE score0
      score2 == IF Len(b.applications) > 0
                  THEN score1 + ApprovedLoans(b.applications) * 20 ELSE score1
      floored == IF score2 > 300 THEN score2 ELSE 300
  IN  IF floored < 850 THEN floored ELSE 850

\* The routes that only read the store, each with the role it requires.
GetRoutes ==
  { [name |-> "listOwnOffers", role |-> "lender"],
    [name |-> "listOwnOfferApplications", role |-> "lender"],
    [name |-> "listActiveOffers", role |-> "borrower"],
    [name |-> "listOwnApplications", role |-> "borrower"],
    [name |-> "listOwnPayments", role |-> "borrower"],
    [name |-> "listUsers", role |-> "admin"],
    [name |-> "listBorrowers", role |-> "admin"],
    [name |-> "listAllApplications", role |-> "admin"],
    [name |-> "listAllOffers", role |-> "admin"],
    [name |-> "listAllPayments", role |-> "admin"] }

\* A read route: the role check, then find() and res.json
ListRoute(u, route) ==
  /\ IF ~HasRole(u, route.role)
       THEN res' = Response(route.name, 403, ErrorBody)
       ELSE res' = Response(route.name, 200, DocBody("list"))
  /\ UNCHANGED <<loans, identity, scoreInput>>

\* GET /api/admin/borrowers, for one borrower: creditScore of the
\* applications and payment records collected for that borrower
ScoreForAdmin ==
  /\ res' = Response("calculateCreditScore", 200,
                     [kind |-> "score", score |-> CalculateCreditScore(scoreInput)])
  /\ UNCHANGED <<loans, identity, scoreInput>>

\* ---------------------------------------------------------------- specifications
AppIds == 1..Len(apps)
OfferIds == 1..Len(offers)
Ghost == {GhostId}

\* A request takes the lowest free slot.
FreeSlot(p) == pc[p] = "idle" /\ \A q \in Procs : pc[q] = "idle" => p <= q

DoCreateOffer(T) == \E u \in T : CreateOffer(u)
DoCreateApplication(T, O) == \E u \in T, o \in O : CreateApplication(u, o)
DoRecordPayment(T, A) == \E u \in T, a \in A, x \in Amounts : RecordPayment(u, a, x)
DoPatchBegin(T, A) ==
  \E p \in Procs, u \in T, a \in A, s \in RequestStatuses :
    FreeSlot(p) /\ PatchBegin(p, u, a, s)
DoPatchDeactivate == \E p \in Procs : PatchDeactivate(p)
DoPatchFindPayment == \E p \in Procs : PatchFindPayment(p)
DoPatchCreate == \E p \in Procs : PatchCreate(p)
DoPatchWrite == \E p \in Procs : PatchWrite(p)

\* Requests arrive at any time: handlers interleave at their awaits.
Next ==
  \/ DoCreateOffer(Owners)
  \/ DoCreateApplication(Borrowers, OfferIds \cup Ghost)
  \/ DoRecordPayment(Borrowers, AppIds)
  \/ DoPatchBegin(Owners, AppIds)
  \/ DoPatchDeactivate
  \/ DoPatchFindPayment
  \/ DoPatchCreate
  \/ DoPatchWrite

Spec == Init /\ [][Next]_vars

\* One request at a time: a request is issued only when none is in flight.
Quiet == \A p \in Procs : pc[p] = "idle"

SeqNext ==
  \/ Quiet /\ DoCreateOffer(Tokens)
  \/ Quiet /\ DoCreateApplication(Tokens, OfferIds \cup Ghost)
  \/ Quiet /\ DoRecordPayment(Tokens, AppIds \cup Ghost)
  \/ Quiet /\ DoPatchBegin(Tokens, AppIds \cup Ghost)
  \/ DoPatchDeactivate
  \/ DoPatchFindPayment
  \/ DoPatchCreate
  \/ DoPatchWrite

SeqSpec == Init /\ [][SeqNext]_vars

\* The application ledger: entitled callers, one request at a time, and room
\* for several applications against the same offer.
DoCreateLedgerApplication ==
  \E u \in Borrowers, o \in OfferIds : CreateApplicationUpTo(u, o, MaxLedgerApps)

LedgerNext ==
  \/ Quiet /\ DoCreateOffer(Owners)
  \/ Quiet /\ DoCreateLedgerApplication
  \/ Quiet /\ DoRecordPayment(Borrowers, AppIds)
  \/ Quiet /\ DoPatchBegin(Owners, AppIds)
  \/ DoPatchDeactivate
  \/ DoPatchFindPayment
  \/ DoPatchCreate
  \/ DoPatchWrite

LedgerSpec == Init /\ [][LedgerNext]_vars

\* The identity store: registrations interleave at their awaits, the other
\* handlers are single store operations.  Callers present tokens that login
\* has issued; no identity handler reads or writes the loan store.
GhostUser == "a0"
UserIds == UNION {Spellings(i) : i \in 1..Len(users)} \cup {GhostUser}

DoRegisterBegin ==
  \E p \in Procs, e \in Emails \cup {NoEmail}, r \in BodyRoles : RegisterBegin(p, e, r)
DoRegisterSave == \E p \in Procs : RegisterSave(p)
DoLogin == \E e \in Emails, r \in Roles, ok \in BOOLEAN : Login(e, r, ok)
DoDeleteUser(T) == \E u \in T, id \in UserIds : DeleteUser(u, id)
DoSetUserRole(T) == \E u \in T, id \in UserIds, r \in Promotions : SetUserRole(u, id, r)
DoBorrowerCreditScore(T) ==
  \E u \in T, o \in PopulateOutcomes : BorrowerCreditScore(u, o)

UserNext ==
  \/ DoRegisterBegin
  \/ DoRegisterSave
  \/ DoLogin
  \/ DoDeleteUser(tokens)
  \/ DoSetUserRole(tokens)
  \/ DoBorrowerCreditScore(tokens)

UserSpec == Init /\ [][UserNext]_vars

\* Access control: every role-gated route, one request at a time, called
\* with a token of every role, over a User collection that two
\* registrations have filled.  The two routes that write the User
\* collection are called by everyone but the admin, so that the collection
\* stays as registered.
AdminToken == [id |-> IdOf(1), role |-> "admin"]
Callers == Owners \cup Borrowers \cup {AdminToken}
NonAdmins == {t \in Callers : t.role # "admin"}

AccessInit ==
  /\ offers = <<>>
  /\ apps = <<>>
  /\ records = <<>>
  /\ pc = [p \in Procs |-> "idle"]
  /\ req = [p \in Procs |-> NoReq]
  /\ res = NoRes
  /\ users = <<NewUser(1, "a@x", "admin"), NewUser(2, "b@x", "borrower")>>
  /\ tokens = {}
  /\ reg = [p \in Procs |-> NoReg]
  /\ scoreInput = NoBorrower

DoListRoute(T) == \E u \in T, route \in GetRoutes : ListRoute(u, route)

AccessNext ==
  \/ Quiet /\ DoCreateOffer(Callers)
  \/ Quiet /\ DoCreateApplication(Callers, OfferIds)
  \/ Quiet /\ DoRecordPayment(Callers, AppIds)
  \/ Quiet /\ DoPatchBegin(Callers, AppIds)
  \/ DoPatchDeactivate
  \/ DoPatchFindPayment
  \/ DoPatchCreate
  \/ DoPatchWrite
  \/ Quiet /\ DoListRoute(Callers)
  \/ Quiet /\ DoBorrowerCreditScore(Callers)
  \/ Quiet /\ DoDeleteUser(NonAdmins)
  \/ Quiet /\ DoSetUserRole(NonAdmins)

AccessSpec == AccessInit /\ [][AccessNext]_vars

\* The admin-view score as a function: every borrower object within the
\* bounds is an input, and the only step computes its score.
RECURSIVE SeqsUpTo(_, _)
SeqsUpTo(S, n) ==
  IF n = 0 THEN {<<>>}
  ELSE LET shorter == SeqsUpTo(S, n - 1) IN
       shorter \cup {Append(q, x) : q \in shorter, x \in S}

ScoreInputs ==
  [applications : SeqsUpTo(Statuses, MaxScoreApps),
   payments : SeqsUpTo(Lengths, MaxScoreRecords)]

ScoreInit ==
  /\ offers = <<>>
  /\ apps = <<>>
  /\ records = <<>>
  /\ pc = [p \in Procs |-> "idle"]
  /\ req = [p \in Procs |-> NoReq]
  /\ res = NoRes
  /\ users = <<>>
  /\ tokens = {}
  /\ reg = [p \in Procs |-> NoReg]
  /\ scoreInput \in ScoreInputs

ScoreNext == ScoreForAdmin

ScoreSpec == ScoreInit /\ [][ScoreNext]_vars

\* ---------------------------------------------------------------- properties
Approving(p) == pc[p] # "idle" /\ req[p].status = "approved"

\* C1: under every interleaving of concurrent approvals of one application,
\* the store never holds more than one PaymentRecord with that applicationId.
C1_AtMostOneRecord ==
  \A a \in AppIds : Cardinality(RecordsOf(records, a)) <= 1

\* C2: every recordPayment call on an application that has a PaymentRecord
\* adds its amount to amountPaid and appends exactly one entry carrying that
\* amount, whatever is in flight; a step of another handler changes no
\* existing record and only a recordPayment call changes one, so no update
\* is lost and entries stand in the order the updates applied.
C2_NoLostUpdate ==
  [][ /\ (pc' = pc /\ res'.op = "recordPayment") =>
           \A u \in Borrowers, a \in AppIds, x \in Amounts :
             (FindOne(records, a) # 0 /\ RecordPayment(u, a, x)) =>
               LET i == FindOne(records, a) IN
                 /\ records'[i].amountPaid = records[i].amountPaid + x
                 /\ records'[i].payments = Append(records[i].payments, [amount |-> x])
                 /\ Len(records') = Len(records)
                 /\ \A j \in (1..Len(records)) \ {i} : records'[j] = records[j]
      /\ (records' # records /\ pc' # pc) =>
           \A j \in 1..Len(records) : records'[j] = records[j]
      /\ (records' # records /\ pc' = pc) => res'.op = "recordPayment"
    ]_vars

C2_Witness ==
  \E i \in 1..Len(records) :
    /\ records[i].payments = <<[amount |-> 2], [amount |-> -1]>>
    /\ records[i].amountPaid = 1
    /\ \E p \in Procs : pc[p] = "write"

\* C3: with one request at a time, an approval that finds no PaymentRecord
\* creates exactly one (amountPaid 0, no payments); an approval of an
\* application that has a record creates none and leaves every record,
\* payments included, as it was; when an approval completes the application
\* has exactly one record and the referenced offer is inactive.
C3_SecondApprovalIdempotent ==
  [][ \A p \in Procs :
        /\ PatchCreate(p) =>
             /\ RecordsOf(records, req[p].id) = {}
             /\ records' = Append(records, [applicationId |-> req[p].id,
                                            amountPaid |-> 0, payments |-> <<>>])
        /\ (pc[p] # "idle" /\ pc'[p] # pc[p] /\ RecordsOf(records, req[p].id) # {}) =>
             records' = records
        /\ (PatchWrite(p) /\ req[p].status = "approved") =>
             /\ Cardinality(RecordsOf(records', req[p].id)) = 1
             /\ ~offers'[apps[req[p].id].loanOfferId].isActive
    ]_vars

C3_Witness ==
  /\ Quiet
  /\ res = Response("setApplicationStatus", 200, DocBody("app"))
  /\ \E i \in 1..Len(records) :
       /\ records[i].payments # <<>>
       /\ apps[records[i].applicationId].status = "approved"
       /\ ~offers[apps[records[i].applicationId].loanOfferId].isActive

\* C4: once an application's status is approved or rejected it never
\* changes again.
C4_StatusTerminal ==
  [][ \A a \in AppIds : apps[a].status # "pending" => apps'[a].status = apps[a].status ]_vars

\* C5: a PaymentRecord exists for an application only if that application's
\* status has already been written as approved.
C5_RecordOnlyAfterApproval ==
  \A i \in 1..Len(records) : apps[records[i].applicationId].status = "approved"

\* C5 (amended): a PaymentRecord is created only by the create step of a
\* setApplicationStatus(approved) call for that application, a step that
\* precedes the call's status write; no other step adds or removes a record.
C5_RecordOnlyByApprovalCall ==
  [][ /\ Len(records') >= Len(records)
      /\ \A i \in 1..Len(records) : records'[i].applicationId = records[i].applicationId
      /\ \A i \in (Len(records) + 1)..Len(records') :
           \E p \in Procs :
             /\ pc[p] = "create" /\ pc'[p] = "write"
             /\ req[p].status = "approved"
             /\ req[p].id = records'[i].applicationId
             /\ req[p].id \in AppIds
             /\ apps' = apps
    ]_vars

C5_Witness ==
  \E i \in 1..Len(records), p \in Procs :
    /\ apps[records[i].applicationId].status = "pending"
    /\ pc[p] = "write" /\ req[p].id = records[i].applicationId
    /\ records[i].payments # <<>>

\* C6: in every reachable state every PaymentRecord's amountPaid equals the
\* sum of the amounts of the entries of its payments sequence.
C6_AmountPaidIsSum ==
  \A i \in 1..Len(records) : records[i].amountPaid = SumAmounts(records[i].payments)

C6_Witness ==
  /\ Len(records) = 2
  /\ \E i \in 1..Len(records) : Len(records[i].payments) = 2 /\ records[i].amountPaid # 0

\* C7: a setApplicationStatus call by a lender who does not own the
\* referenced offer changes neither the application, nor the offer, nor the
\* payment records.
C7_OnlyOwnerChangesStatus ==
  [][ \A p \in Procs :
        ( /\ pc[p] # "idle" /\ pc'[p] # pc[p]
          /\ req[p].offer # GhostId
          /\ req[p].user # offers[req[p].offer].lenderId ) =>
        UNCHANGED store
    ]_vars

\* C8: an offer is stored with isActive true; isActive turns false only in
\* the deactivate step of a setApplicationStatus(approved) call for an
\* application that references the offer; it never turns true again.
C8_OfferActiveLifecycle ==
  [][ /\ Len(offers') >= Len(offers)
      /\ \A o \in (Len(offers) + 1)..Len(offers') : offers'[o].isActive
      /\ \A o \in OfferIds :
           /\ ~offers[o].isActive => ~offers'[o].isActive
           /\ (offers[o].isActive /\ ~offers'[o].isActive) =>
                \E p \in Procs :
                  /\ pc[p] = "deactivate" /\ pc'[p] = "findPayment"
                  /\ req[p].status = "approved"
                  /\ req[p].id \in AppIds
                  /\ apps[req[p].id].loanOfferId = o
    ]_vars

C8_Witness ==
  \E o \in OfferIds, p \in Procs :
    /\ ~offers[o].isActive
    /\ pc[p] = "deactivate" /\ req[p].offer = o

\* C9: an application is stored only against an offer that exists and is
\* active at that moment.
C9_ApplicationOnlyOnActiveOffer ==
  [][ \A a \in (Len(apps) + 1)..Len(apps') :
        /\ apps'[a].loanOfferId \in OfferIds
        /\ offers[apps'[a].loanOfferId].isActive
    ]_vars

\* C10: recordPayment for an applicationId without a PaymentRecord answers
\* NotFound and changes no payment record, application or offer.
C10_NotFoundWithoutRecord ==
  [][ \A u \in Borrowers, a \in AppIds \cup Ghost, x \in Amounts :
        (RecordPayment(u, a, x) /\ FindOne(records, a) = 0) =>
          (res'.code = 404 /\ UNCHANGED store)
    ]_vars

\* C11: no step decrements a PaymentRecord's amountPaid, shortens or rewrites
\* its payments sequence, or deletes the record.
C11_RecordsOnlyGrow ==
  [][ /\ Len(records') >= Len(records)
      /\ \A i \in 1..Len(records) :
           /\ records'[i].applicationId = records[i].applicationId
           /\ records'[i].amountPaid >= records[i].amountPaid
           /\ Len(records'[i].payments) >= Len(records[i].payments)
           /\ SubSeq(records'[i].payments, 1, Len(records[i].payments)) = records[i].payments
    ]_vars

\* C12: a call to a role-gated route by a caller whose role is not the one
\* the route requires is answered 403 and leaves users, offers, applications
\* and payment records (and every handler in flight) as they were; so a
\* borrower's createOffer is answered 403 and persists no offer.
C12_WrongRoleForbidden ==
  [][ LET Forbidden == /\ res'.code = 403
                       /\ res'.body = ErrorBody
                       /\ UNCHANGED <<store, identity, pc, req>>
      IN \/ Forbidden
         \/ \A u \in Callers :
           /\ u.role # "lender" =>
                /\ CreateOffer(u) => Forbidden
                /\ \A p \in Procs, a \in AppIds, st \in RequestStatuses :
                     PatchBegin(p, u, a, st) => Forbidden
           /\ u.role # "borrower" =>
                /\ \A o \in OfferIds : CreateApplication(u, o) => Forbidden
                /\ \A a \in AppIds, x \in Amounts : RecordPayment(u, a, x) => Forbidden
                /\ \A o \in PopulateOutcomes : BorrowerCreditScore(u, o) => Forbidden
           /\ u.role # "admin" =>
                /\ \A id \in UserIds : DeleteUser(u, id) => Forbidden
                /\ \A id \in UserIds, r \in Promotions : SetUserRole(u, id, r) => Forbidden
           /\ \A route \in GetRoutes :
                (u.role # route.role /\ ListRoute(u, route)) => Forbidden ]_vars

\* A borrower's createOffer has been refused in a store that holds an
\* offer, an application and a payment record, and two users.
C12_Witness ==
  /\ res = Response("createOffer", 403, ErrorBody)
  /\ offers # <<>> /\ apps # <<>> /\ records # <<>>
  /\ \A i \in 1..Len(users) : users[i].present
  /\ Quiet

\* C13: a step of a setApplicationStatus(rejected) call changes nothing but
\* the status field of the application it names: offers, payment records
\* and every other application stay as they were.
C13_RejectOnlyWritesStatus ==
  [][ \A p \in Procs :
        /\ (pc[p] = "idle" /\ pc'[p] # "idle" /\ req'[p].status = "rejected") =>
             (pc'[p] = "write" /\ UNCHANGED store)
        /\ (pc[p] # "idle" /\ pc'[p] # pc[p] /\ req[p].status = "rejected") =>
             /\ offers' = offers
             /\ records' = records
             /\ apps' = [apps EXCEPT ![req[p].id].status = "rejected"]
    ]_vars

C13_Witness ==
  /\ Quiet
  /\ res = Response("setApplicationStatus", 200, DocBody("app"))
  /\ \E a \in AppIds, b \in AppIds :
       /\ apps[a].status = "rejected"
       /\ RecordsOf(records, a) = {}
       /\ apps[b].status = "pending"
       /\ apps[b].loanOfferId = apps[a].loanOfferId
       /\ offers[apps[a].loanOfferId].isActive

\* C18: in every reachable state an application whose stored status is
\* approved references a stored offer whose isActive is false, so the list
\* of active offers holds no offer that has an approved application.
C18_ApprovedOfferInactive ==
  \A a \in AppIds :
    apps[a].status = "approved" =>
      /\ apps[a].loanOfferId \in OfferIds
      /\ ~offers[apps[a].loanOfferId].isActive
      /\ apps[a].loanOfferId \notin ListActiveOffers(offers)

C18_Witness ==
  \E a \in AppIds, p \in Procs :
    /\ apps[a].status = "approved"
    /\ pc[p] = "write" /\ req[p].id = a

\* C19: in every reachable state an application whose stored status is
\* approved has a PaymentRecord, which a recordPayment lookup finds.
C19_ApprovedHasRecord ==
  \A a \in AppIds :
    apps[a].status = "approved" =>
      /\ RecordsOf(records, a) # {}
      /\ FindOne(records, a) \in 1..Len(records)

C19_Witness ==
  \E a \in AppIds :
    /\ apps[a].status = "approved"
    /\ records[FindOne(records, a)].payments # <<>>
    /\ \E p \in Procs : pc[p] = "findPayment" /\ req[p].id = a

\* C20: in every reachable state no two distinct applications that reference
\* the same offer both have status approved.
C20_OneApprovalPerOffer ==
  \A a \in AppIds, b \in AppIds :
    (a # b /\ apps[a].loanOfferId = apps[b].loanOfferId
       /\ apps[a].status = "approved" /\ apps[b].status = "approved") => FALSE

\* C16 (as stated): once a registration with an email has succeeded, every
\* later register call with that email is answered 400 and creates no user,
\* and at most one user document holds the email.
C16_RegisteredEmailRefusedForever ==
  [][ /\ \A p \in Procs, e \in Emails, r \in BodyRoles :
           ((\E i \in 1..Len(users) : users[i].email = e) /\ RegisterBegin(p, e, r)) =>
               /\ res' = Response("register", 400, DocBody("emailRegistered"))
               /\ UNCHANGED <<users, reg>>
      /\ \A e \in Emails :
           Cardinality({i \in 1..Len(users') :
                          users'[i].present /\ users'[i].email = e}) <= 1 ]_vars

\* C16 (amended): while a user document with an email exists, every register
\* call with that email is answered 400 whatever role it requests and
\* creates no user, and at most one user document holds the email; once the
\* document is deleted the email can be registered again.
C16_PresentEmailRefused ==
  [][ /\ \A p \in Procs, e \in Emails, r \in BodyRoles :
           ((\E i \in 1..Len(users) : users[i].present /\ users[i].email = e)
              /\ RegisterBegin(p, e, r)) =>
               /\ res' = Response("register", 400, DocBody("emailRegistered"))
               /\ UNCHANGED <<users, reg>>
      /\ \A e \in Emails :
           Cardinality({i \in 1..Len(users') :
                          users'[i].present /\ users'[i].email = e}) <= 1 ]_vars

\* A user has been deleted, its email has been registered again under a
\* new id, and a further call with the email was refused.
C16_Witness ==
  /\ res = Response("register", 400, DocBody("emailRegistered"))
  /\ \E i \in 1..Len(users), j \in 1..Len(users) :
       /\ ~users[i].present
       /\ users[j].present
       /\ users[j].email = users[i].email

\* C17: deleteUser called by an admin on the admin's own id is answered 400
\* and removes no user; called on the id of another stored user it is
\* answered 200 and the user is gone; a deleted user's id names no user in
\* any later state, also when the user's email is registered again.
C17_DeleteUserSelfAndOther ==
  [][ /\ \A u \in tokens, id \in UserIds :
           (u.role = "admin" /\ DeleteUser(u, id)) =>
               IF \E i \in 1..Len(users) : id \in Spellings(i) /\ u.id \in Spellings(i)
                 THEN /\ res' = Response("deleteUser", 400, ErrorBody)
                      /\ users' = users
                 ELSE /\ res' = Response("deleteUser", 200, DocBody("message"))
                      /\ \A i \in 1..Len(users') :
                           /\ id \in Spellings(i) => ~users'[i].present
                           /\ id \notin Spellings(i) => users'[i] = users[i]
      /\ Len(users') >= Len(users)
      /\ \A i \in 1..Len(users) :
           /\ users'[i].id = users[i].id
           /\ ~users[i].present => ~users'[i].present
      /\ \A i \in 1..Len(users'), j \in 1..Len(users') :
           users'[i].id = users'[j].id => i = j ]_vars

\* Payment entries over the given records, counted record by record.
EntriesOf(ps) ==
  LET n(k) == IF ps[k] = NoArray THEN 0 ELSE ps[k]
      sum[k \in 0..Len(ps)] == IF k = 0 THEN 0 ELSE sum[k - 1] + n(k)
  IN  sum[Len(ps)]

\* C14: the admin-view score equals clamp(700 + 5 * payment entries over
\* all given records + 20 * given applications with status approved, 300,
\* 850) for every input: 700 for empty inputs, 755 for 3 entries and 2
\* approved applications, 850 for 1000 entries, and always in [300, 850].
C14_AdminScoreFormula ==
  res.op = "calculateCreditScore" =>
    LET entries == EntriesOf(scoreInput.payments)
        approved == Cardinality({k \in DOMAIN scoreInput.applications :
                                   scoreInput.applications[k] = "approved"})
        raw == 700 + 5 * entries + 20 * approved
        score == res.body.score
    IN  /\ score = (IF raw < 300 THEN 300 ELSE IF raw > 850 THEN 850 ELSE raw)
        /\ score >= 300 /\ score <= 850
        /\ (entries = 0 /\ approved = 0) => score = 700
        /\ (entries = 3 /\ approved = 2) => score = 755
        /\ entries >= 1000 => score = 850

\* The score of 3 payment entries over two records, two approved
\* applications and a rejected one has been computed.
C14_Witness ==
  /\ res = Response("calculateCreditScore", 200, [kind |-> "score", score |-> 755])
  /\ scoreInput.payments = <<1, 2>>
  /\ scoreInput.applications = <<"approved", "rejected", "approved">>

\* C15: the borrower score over payment entries without a status field is
\* the base 650, so every borrowerCreditScore call by a borrower is answered
\* 200 with score 650, whatever the store holds.
C15_BorrowerScoreIs650 ==
  [][ \A u \in tokens, o \in PopulateOutcomes :
        (u.role = "borrower" /\ BorrowerCreditScore(u, o)) =>
            /\ res' = Response("borrowerCreditScore", 200,
                                [kind |-> "score", score |-> 650])
            /\ \A x \in Amounts, y \in Amounts :
                 ScoreForBorrower(TRUE, <<x, y>>) = 650 ]_vars

====
